---- MODULE Spec2Model ----
(***************************************************************************)
(* A model of pism-cloud's container runner (container/pism_cloud_runner.py *)
(* : stage inputs, run a command, upload the files it generated, remove the *)
(* scratch directory) and of the URL handling it relies on.                 *)
(*                                                                          *)
(* Strings are sequences of one-character strings, so that urlparse and     *)
(* pathlib are modelled by what they do to the characters.                  *)
(***************************************************************************)
EXTENDS Integers, Sequences, FiniteSets, TLC

VARIABLES
    pc,         \* position of main(): "init", "stage", "run", "upload", "finally", "done"
    params,     \* the dictionary handed to main()
    tempdir,    \* "none" (not created), "exists", "removed"
    wd,         \* entries below tempdir: relative path (sequence of names) -> entry
    outside,    \* paths of files created outside tempdir
    item,       \* index of the next element of `inputs` in stage()'s loop
    fetches,    \* transfers attempted by download_s3 / download_pycurl, in order
    proc,       \* what subprocess.run() did in run()
    errlog,     \* what run() logged at error severity, in order
    logWrites,  \* log files written by process_output()
    old_file_list, \* run()'s snapshot before the command
    new_files,  \* the list run() returned
    fidx,       \* index of the next element of new_files in main()'s upload loop
    pushes,     \* transfers attempted by upload_s3, in order
    err,        \* the exception propagating out of main(), "none" if none
    h_op,       \* URL helper under examination: "idle", "parse", "download", "upload"
    h_url,      \* its URL argument
    h_file,     \* its file name argument
    h_res,      \* its result
    x_pc,       \* position of pism-cloud-execute's main(): "start", "loop", "wait", "done"
    x_args,     \* its command line and the run scripts it will find
    x_todo,     \* the run scripts the loop of execute() has not reached yet
    x_started,  \* the run scripts started, in order
    x_exits,    \* their exit statuses, in order
    x_running,  \* the run scripts running now
    x_calls,    \* the calls of s3_to_local and local_to_s3, in order
    x_dirs,     \* the directories ensure_directories_exist() made
    x_err       \* the exception propagating out of main(), "none" if none

vars == <<pc, params, tempdir, wd, outside, item, fetches, proc, errlog, logWrites,
          old_file_list, new_files, fidx, pushes, err, h_op, h_url, h_file, h_res,
          x_pc, x_args, x_todo, x_started, x_exits, x_running, x_calls, x_dirs, x_err>>

pipeVars == <<pc, params, tempdir, wd, outside, item, proc, errlog, logWrites,
              old_file_list, new_files, fidx, err>>

helperVars == <<h_op, h_url, h_file, h_res>>

execVars == <<x_pc, x_args, x_todo, x_started, x_exits, x_running, x_calls, x_dirs, x_err>>

(***************************************************************************)
(* Bounds                                                                   *)
(***************************************************************************)
MaxTail == 4        \* longest part after "s3:" or "s3://" of the URLs given to the URL helpers
MaxName == 2        \* longest file name given to the URL helpers
MaxInputs == 2      \* longest list of inputs
MaxExit == 2        \* largest exit status of the command or of a run script
MaxScripts == 3     \* most run scripts under run_scripts/

(***************************************************************************)
(* Characters and strings                                                   *)
(***************************************************************************)
LowerCase == <<"a","b","c","d","e","f","g","h","i","j","k","l","m",
               "n","o","p","q","r","s","t","u","v","w","x","y","z">>

UpperCase == <<"A","B","C","D","E","F","G","H","I","J","K","L","M",
               "N","O","P","Q","R","S","T","U","V","W","X","Y","Z">>

Digits == <<"0","1","2","3","4","5","6","7","8","9">>

Range(s) == { s[i] : i \in DOMAIN s }

IsAlpha(c) == c \in Range(LowerCase) \cup Range(UpperCase)

\* str.lower() of one character
Lower(c) ==
    IF c \in Range(UpperCase)
    THEN LowerCase[CHOOSE i \in DOMAIN UpperCase : UpperCase[i] = c]
    ELSE c

LowerStr(s) == [i \in DOMAIN s |-> Lower(s[i])]

\* str.find(c, from): the first index >= from holding c, 0 when there is none
\* (indices are 1-based, Python's -1 is 0 here)
FindFrom(s, c, from) ==
    IF \E i \in from..Len(s) : s[i] = c
    THEN CHOOSE i \in from..Len(s) : s[i] = c /\ \A j \in from..(i-1) : s[j] # c
    ELSE 0

Find(s, c) == FindFrom(s, c, 1)

\* str.rfind(c)
RFind(s, c) ==
    IF \E i \in 1..Len(s) : s[i] = c
    THEN CHOOSE i \in 1..Len(s) : s[i] = c /\ \A j \in (i+1)..Len(s) : s[j] # c
    ELSE 0

\* s[i-1:] and s[:i-1] of Python, 1-based
From(s, i) == SubSeq(s, i, Len(s))
Upto(s, i) == SubSeq(s, 1, i)

StartsWith(s, p) == Len(s) >= Len(p) /\ SubSeq(s, 1, Len(p)) = p

\* str.split(sep) for a one-character separator
RECURSIVE SplitOn(_, _)
SplitOn(s, sep) ==
    LET i == Find(s, sep) IN
    IF i = 0 THEN <<s>>
    ELSE <<Upto(s, i - 1)>> \o SplitOn(From(s, i + 1), sep)

\* sep.join(parts)
RECURSIVE JoinWith(_, _)
JoinWith(parts, sep) ==
    IF Len(parts) = 0 THEN <<>>
    ELSE IF Len(parts) = 1 THEN parts[1]
    ELSE parts[1] \o <<sep>> \o JoinWith(Tail(parts), sep)

RECURSIVE SelectParts(_)
\* [x for x in parts if x and x != '.']
SelectParts(parts) ==
    IF Len(parts) = 0 THEN <<>>
    ELSE IF parts[1] = <<>> \/ parts[1] = <<".">> THEN SelectParts(Tail(parts))
    ELSE <<parts[1]>> \o SelectParts(Tail(parts))

(***************************************************************************)
(* urllib.parse.urlparse                                                    *)
(***************************************************************************)
SchemeChars == Range(LowerCase) \cup Range(UpperCase) \cup Range(Digits) \cup {"+", "-", "."}

\* schemes whose last path segment may carry ;parameters
UsesParams == { <<>>, <<"f","t","p">>, <<"h","t","t","p">>, <<"h","t","t","p","s">>,
                <<"s","f","t","p">> }

\* the scheme and what follows its colon
SplitScheme(url) ==
    LET i == Find(url, ":") IN
    IF i > 1 /\ IsAlpha(url[1]) /\ \A j \in 1..(i-1) : url[j] \in SchemeChars
    THEN [scheme |-> LowerStr(Upto(url, i - 1)), rest |-> From(url, i + 1)]
    ELSE [scheme |-> <<>>, rest |-> url]

\* _splitnetloc(url, 2): the authority ends at the first of / ? #
SplitNetloc(rest) ==
    IF StartsWith(rest, <<"/","/">>)
    THEN LET ends == { i \in 3..Len(rest) : rest[i] \in {"/", "?", "#"} }
             delim == IF ends = {} THEN Len(rest) + 1
                      ELSE CHOOSE i \in ends : \A j \in ends : i <= j
         IN  [netloc |-> SubSeq(rest, 3, delim - 1), rest |-> From(rest, delim)]
    ELSE [netloc |-> <<>>, rest |-> rest]

\* url.split('#', 1)[0] and url.split('?', 1)[0]
CutAt(s, c) == IF Find(s, c) = 0 THEN s ELSE Upto(s, Find(s, c) - 1)

\* _splitparams(url)[0]
CutParams(scheme, path) ==
    IF scheme \in UsesParams /\ Find(path, ";") # 0
    THEN LET slash == RFind(path, "/")
             i == IF slash # 0 THEN FindFrom(path, ";", slash) ELSE Find(path, ";")
         IN  IF i = 0 THEN path ELSE Upto(path, i - 1)
    ELSE path

urlparse(url) ==
    LET s == SplitScheme(url)
        n == SplitNetloc(s.rest)
    IN  [scheme |-> s.scheme,
         netloc |-> n.netloc,
         path   |-> CutParams(s.scheme, CutAt(CutAt(n.rest, "#"), "?"))]

(***************************************************************************)
(* pathlib.Path on POSIX                                                    *)
(***************************************************************************)
\* posixpath.splitroot: exactly two leading slashes are a root of their own
SplitRoot(p) ==
    IF ~ StartsWith(p, <<"/">>) THEN [root |-> <<>>, rel |-> p]
    ELSE IF ~ StartsWith(p, <<"/","/">>) \/ StartsWith(p, <<"/","/","/">>)
         THEN [root |-> <<"/">>, rel |-> From(p, 2)]
         ELSE [root |-> <<"/","/">>, rel |-> From(p, 3)]

\* pathlib.Path(p): the root and the parts that are neither empty nor "."
Path(p) ==
    LET r == SplitRoot(p) IN
    [root |-> r.root, parts |-> SelectParts(SplitOn(r.rel, "/"))]

PathStr_NoDot(path) == path.root \o JoinWith(path.parts, "/")

\* str(path)
PathStr(path) ==
    LET s == path.root \o JoinWith(path.parts, "/") IN
    IF s = <<>> THEN <<".">> ELSE s

\* path.name
PathName(path) ==
    IF Len(path.parts) = 0 THEN <<>> ELSE path.parts[Len(path.parts)]

\* path.is_relative_to("/")
IsRelativeToRoot(path) == path.root = <<"/">>

\* path.relative_to("/")
RelativeToRoot(path) == [root |-> <<>>, parts |-> path.parts]

(***************************************************************************)
(* parse_s3_url                                                             *)
(***************************************************************************)
parse_s3_url_keepRoot(url) ==
    LET url_parts == urlparse(url)
        path == Path(url_parts.path)
    IN  [bucket_name |-> url_parts.netloc, object_name |-> PathStr(path)]

parse_s3_url(url) ==
    LET url_parts == urlparse(url)
        path == Path(url_parts.path)
        object_name == IF IsRelativeToRoot(path) THEN RelativeToRoot(path) ELSE path
    IN  [bucket_name |-> url_parts.netloc, object_name |-> PathStr(object_name)]

(***************************************************************************)
(* Parameters of a run                                                      *)
(***************************************************************************)
NoName == <<"<", ">">>       \* stands for "the item is a plain string"

\* an element of `inputs`: a URL string, or a [URL, file_name] pair
UrlItem(url) == [kind |-> "str", url |-> url, name |-> NoName]
PairItem(url, name) == [kind |-> "pair", url |-> url, name |-> name]

Https_x == <<"h","t","t","p","s",":","/","/","x">>
S3_bkt == <<"s","3",":","/","/","b","k","t">>

a_nc == <<"a",".","n","c">>
b_nc == <<"b",".","n","c">>
out_nc == <<"o","u","t",".","n","c">>
stdout_log == <<"s","t","d","o","u","t",".","l","o","g">>
stderr_log == <<"s","t","d","e","r","r",".","l","o","g">>
sub == <<"s","u","b">>

InputChoices ==
    { UrlItem(Https_x \o <<"/">> \o a_nc),                  \* "https://x/a.nc"
      PairItem(S3_bkt \o <<"/","k">>, b_nc),                \* ["s3://bkt/k", "b.nc"]
      UrlItem(S3_bkt \o <<"/">> \o a_nc),                   \* "s3://bkt/a.nc"
      PairItem(Https_x \o <<"/","a">>, stdout_log),         \* ["https://x/a", "stdout.log"]
      PairItem(Https_x \o <<"/","a">>, <<".",".","/","b">>),\* ["https://x/a", "../b"]
      UrlItem(Https_x),                                     \* "https://x"
      UrlItem(S3_bkt) }                                     \* "s3://bkt"

InputLists == UNION { [1..n -> InputChoices] : n \in 0..MaxInputs }

OutputChoices ==
    { <<"s","3",":","/","/","o","/","p">>,                  \* "s3://o/p"
      <<"s","3",":","/","/","o","/","p","/">> }             \* "s3://o/p/"

ParamKeys == {"inputs", "command", "output"}

\* names the command may write directly into its working directory
CmdFileNames == {out_nc, a_nc}

(***************************************************************************)
(* The working directory                                                    *)
(***************************************************************************)
File(data) == [kind |-> "file", data |-> data]
Dir == [kind |-> "dir", data |-> "none"]

EmptyDir == [p \in {} |-> Dir]

\* d with entry e at relative path p
Put(d, p, e) == [q \in DOMAIN d \cup {p} |-> IF q = p THEN e ELSE d[q]]

RECURSIVE Climb(_, _)
\* follow `parts` from tempdir; "up" counts the levels climbed above tempdir,
\* from where no name leads back into it
Climb(parts, at) ==
    IF Len(parts) = 0 THEN at
    ELSE IF parts[1] = <<".",".">>
         THEN IF Len(at.rel) > 0
              THEN Climb(Tail(parts), [at EXCEPT !.rel = SubSeq(at.rel, 1, Len(at.rel) - 1)])
              ELSE Climb(Tail(parts), [at EXCEPT !.up = at.up + 1])
         ELSE IF at.up > 0
              THEN Climb(Tail(parts), at)
              ELSE Climb(Tail(parts), [at EXCEPT !.rel = Append(at.rel, parts[1])])

\* output_dir / file_name: where the path leads, tempdir being a fresh
\* directory whose absolute name no parameter can mention
Locate(file_name) ==
    LET p == Path(file_name) IN
    IF p.root # <<>> THEN [inside |-> FALSE, rel |-> <<>>, name |-> PathStr(p)]
    ELSE LET at == Climb(p.parts, [rel |-> <<>>, up |-> 0]) IN
         [inside |-> at.up = 0, rel |-> at.rel, name |-> PathStr(p)]

OpenForWrite_anyTarget(d, loc) ==
    IF loc.inside /\ loc.rel \in DOMAIN d /\ d[loc.rel].kind = "dir" THEN "IsADirectoryError"
    ELSE "ok"

\* open(path, 'wb'): "ok" or the OSError it raises
OpenForWrite(d, loc) ==
    IF ~ loc.inside THEN "ok"
    ELSE IF loc.rel = <<>> THEN "IsADirectoryError"
    ELSE IF loc.rel \in DOMAIN d /\ d[loc.rel].kind = "dir" THEN "IsADirectoryError"
    ELSE IF Len(loc.rel) > 1 /\ ~ ( SubSeq(loc.rel, 1, Len(loc.rel) - 1) \in DOMAIN d
                                    /\ d[SubSeq(loc.rel, 1, Len(loc.rel) - 1)].kind = "dir" )
         THEN "FileNotFoundError"
    ELSE "ok"

\* [x for x in p.iterdir() if x.is_file()], as the set of names
FileList(d) == { p[1] : p \in { q \in DOMAIN d : Len(q) = 1 /\ d[q].kind = "file" } }

\* every enumeration of a finite set without repetition
Orderings(S) ==
    { f \in [1..Cardinality(S) -> S] : \A i, j \in 1..Cardinality(S) : i # j => f[i] # f[j] }

(***************************************************************************)
(* Transfers                                                                *)
(***************************************************************************)
S3 == <<"s","3">>

\* the file a successful or failed write leaves at loc
Written(d, out, loc, data) ==
    IF loc.inside THEN [wd |-> Put(d, loc.rel, File(data)), outside |-> out]
    ELSE [wd |-> d, outside |-> out \cup {loc.name}]

\* download_s3(url, file_name); ok: whether the S3 client gets the object.
\* The client moves the object into place only once it has it all.
download_s3(url, loc, d, out, ok) ==
    LET t == parse_s3_url(url)
        open == OpenForWrite(d, loc)
        attempt == [via |-> "s3", url |-> url, bucket |-> t.bucket_name,
                    key |-> t.object_name, target |-> loc.name, ok |-> ok]
        w == Written(d, out, loc, "input")
    IN  IF ~ ok THEN [wd |-> d, outside |-> out, attempt |-> <<attempt>>, err |-> "ClientError"]
        ELSE IF open # "ok"
             THEN [wd |-> d, outside |-> out, attempt |-> <<attempt>>, err |-> open]
             ELSE [wd |-> w.wd, outside |-> w.outside, attempt |-> <<attempt>>, err |-> "none"]

\* download_pycurl(url, file_name); ok: whether c.perform() succeeds.
\* The file is opened before the transfer starts and stays when it fails.
download_pycurl(url, loc, d, out, ok) ==
    LET open == OpenForWrite(d, loc)
        attempt == [via |-> "curl", url |-> url, bucket |-> <<>>,
                    key |-> <<>>, target |-> loc.name, ok |-> ok]
        w == Written(d, out, loc, IF ok THEN "input" ELSE "partial")
    IN  IF open # "ok" THEN [wd |-> d, outside |-> out, attempt |-> <<>>, err |-> open]
        ELSE [wd |-> w.wd, outside |-> w.outside, attempt |-> <<attempt>>,
              err |-> IF ok THEN "none" ELSE "pycurl.error"]

download_always_curl(url, loc, d, out, ok) == download_pycurl(url, loc, d, out, ok)

\* download(url, file_name)
download(url, loc, d, out, ok) ==
    IF urlparse(url).scheme = S3
    THEN download_s3(url, loc, d, out, ok)
    ELSE download_pycurl(url, loc, d, out, ok)

\* upload_s3(url, file_name): the bucket and object name of the put
upload_s3(url, name) == parse_s3_url(url \o <<"/">> \o name)

\* the local name stage() gives an item
file_name_of(it) ==
    IF it.kind = "str" THEN PathName(Path(urlparse(it.url).path)) ELSE it.name

(***************************************************************************)
(* run() and process_output()                                               *)
(***************************************************************************)
StreamChoices == { <<>>, <<111>> }      \* captured bytes: none, or "o"

NoProc == [ran |-> FALSE, launched |-> FALSE, returncode |-> 0,
           stdout |-> <<>>, stderr |-> <<>>, written |-> {}, mkdir |-> FALSE]

process_stream_anyLength(bytes, tag, file, st, log_output) ==
    IF st.err # "none" THEN st
    ELSE IF log_output THEN [st EXCEPT !.log = Append(@, tag)]
    ELSE [st EXCEPT !.wd = Put(@, Locate(file).rel, File(tag)), !.writes = @ \cup {file}]

\* one stream of process_output()
process_stream(bytes, tag, file, st, log_output) ==
    IF st.err # "none" \/ Len(bytes) = 0 THEN st
    ELSE IF log_output THEN [st EXCEPT !.log = Append(@, tag)]
    ELSE LET loc == Locate(file)
             open == OpenForWrite(st.wd, loc)
         IN  IF open # "ok" THEN [st EXCEPT !.err = open]
             ELSE [st EXCEPT !.wd = Put(@, loc.rel, File(tag)), !.writes = @ \cup {file}]

\* process_output(obj, output_dir, log_output)
process_output(obj, d, log_output) ==
    LET st0 == [wd |-> d, log |-> <<>>, writes |-> {}, err |-> "none"]
        st1 == process_stream(obj.stdout, "stdout", stdout_log, st0, log_output)
    IN  process_stream(obj.stderr, "stderr", stderr_log, st1, log_output)

\* the parameters process_output() accepts by keyword
ProcessOutputKeywords == {"obj", "output_dir", "log_output"}

\* process_output(e, working_directory, error=True) in run()'s handler
handle_called_process_error(obj, d) ==
    IF "error" \in ProcessOutputKeywords
    THEN LET po == process_output(obj, d, TRUE) IN
         [wd |-> po.wd, log |-> po.log, writes |-> po.writes,
          err |-> IF po.err = "none" THEN "CalledProcessError" ELSE po.err]
    ELSE [wd |-> d, log |-> <<>>, writes |-> {}, err |-> "TypeError"]

\* what the command leaves in its working directory
CmdEffect(d, written, mkdir) ==
    LET names == { <<n>> : n \in written } \cup (IF mkdir THEN {<<sub>>, <<sub, out_nc>>} ELSE {})
    IN  [p \in DOMAIN d \cup names |->
            IF p = <<sub>> /\ mkdir THEN Dir
            ELSE IF p \in names THEN File("cmd")
            ELSE d[p]]

FileDelta_all(new, old) == new

\* [x for x in new_file_list if x not in old_file_list]
FileDelta(new, old) == new \ old

(***************************************************************************)
(* main()                                                                   *)
(***************************************************************************)
NoResult == [bucket_name |-> <<>>, object_name |-> <<>>]

\* pism-cloud-execute is not running
ExecIdle ==
    /\ x_pc = "none" /\ x_args = [layout |-> "none", bucket |-> "None", scripts |-> {}]
    /\ x_todo = {} /\ x_started = <<>> /\ x_exits = <<>> /\ x_running = {}
    /\ x_calls = <<>> /\ x_dirs = {} /\ x_err = "none"

Idle ==
    /\ tempdir = "none" /\ wd = EmptyDir /\ outside = {}
    /\ item = 1 /\ fetches = <<>> /\ proc = NoProc /\ errlog = <<>>
    /\ logWrites = {} /\ old_file_list = {} /\ new_files = <<>>
    /\ fidx = 1 /\ pushes = <<>> /\ err = "none"

Init ==
    /\ pc = "init"
    /\ params \in [keys : SUBSET ParamKeys, inputs : InputLists, output : OutputChoices]
    /\ Idle
    /\ h_op = "none" /\ h_url = <<>> /\ h_file = <<>> /\ h_res = NoResult
    /\ ExecIdle

main_start_skip_stage ==
    /\ pc = "init"
    /\ IF ParamKeys \subseteq params.keys
       THEN /\ tempdir' = "exists"
            /\ pc' = "run"
            /\ err' = err
       ELSE /\ tempdir' = tempdir
            /\ pc' = "done"
            /\ err' = "KeyError"
    /\ UNCHANGED <<params, wd, outside, item, fetches, proc, errlog, logWrites,
                   old_file_list, new_files, fidx, pushes>>
    /\ UNCHANGED helperVars
    /\ UNCHANGED execVars

main_start_mkdtemp_first ==
    /\ pc = "init"
    /\ tempdir' = "exists"
    /\ IF ParamKeys \subseteq params.keys
       THEN /\ pc' = IF Len(params.inputs) > 0 THEN "stage" ELSE "run"
            /\ err' = err
       ELSE /\ pc' = "done"
            /\ err' = "KeyError"
    /\ UNCHANGED <<params, wd, outside, item, fetches, proc, errlog, logWrites,
                   old_file_list, new_files, fidx, pushes>>
    /\ UNCHANGED helperVars
    /\ UNCHANGED execVars

\* lines 184-189: read the three parameters, then create the directory
main_start ==
    /\ pc = "init"
    /\ IF ParamKeys \subseteq params.keys
       THEN /\ tempdir' = "exists"
            /\ pc' = IF Len(params.inputs) > 0 THEN "stage" ELSE "run"
            /\ err' = err
       ELSE /\ tempdir' = tempdir
            /\ pc' = "done"
            /\ err' = "KeyError"
    /\ UNCHANGED <<params, wd, outside, item, fetches, proc, errlog, logWrites,
                   old_file_list, new_files, fidx, pushes>>
    /\ UNCHANGED helperVars
    /\ UNCHANGED execVars

stage_item_keep_going ==
    /\ pc = "stage"
    /\ \E ok \in BOOLEAN :
         LET it == params.inputs[item]
             r == download(it.url, Locate(file_name_of(it)), wd, outside, ok)
         IN  /\ wd' = r.wd
             /\ outside' = r.outside
             /\ fetches' = fetches \o r.attempt
             /\ item' = item + 1
             /\ pc' = IF item < Len(params.inputs) THEN "stage" ELSE "run"
             /\ err' = err
    /\ UNCHANGED <<params, tempdir, proc, errlog, logWrites, old_file_list,
                   new_files, fidx, pushes>>
    /\ UNCHANGED helperVars
    /\ UNCHANGED execVars

\* one iteration of the loop of stage(), lines 114-125
stage_item ==
    /\ pc = "stage"
    /\ \E ok \in BOOLEAN :
         LET it == params.inputs[item]
             r == download(it.url, Locate(file_name_of(it)), wd, outside, ok)
         IN  /\ wd' = r.wd
             /\ outside' = r.outside
             /\ fetches' = fetches \o r.attempt
             /\ IF r.err = "none"
                THEN /\ item' = item + 1
                     /\ pc' = IF item < Len(params.inputs) THEN "stage" ELSE "run"
                     /\ err' = err
                ELSE /\ item' = item
                     /\ pc' = "finally"
                     /\ err' = r.err
    /\ UNCHANGED <<params, tempdir, proc, errlog, logWrites, old_file_list,
                   new_files, fidx, pushes>>
    /\ UNCHANGED helperVars
    /\ UNCHANGED execVars

\* what subprocess.run() raises when it cannot start the command: the
\* executable is missing, or it is there and cannot be executed
LaunchErrors == {"FileNotFoundError", "PermissionError"}

launch_failure_returns_empty ==
    /\ proc' = [NoProc EXCEPT !.ran = TRUE]
    /\ \E e \in LaunchErrors :
         errlog' = IF e = "FileNotFoundError" THEN Append(errlog, e) ELSE errlog
    /\ err' = err
    /\ pc' = "finally"
    /\ UNCHANGED <<wd, logWrites, new_files>>

\* the command does not start: FileNotFoundError is logged and raised again
\* (lines 175-177), any other OSError passes through run() as it is
launch_failure ==
    /\ proc' = [NoProc EXCEPT !.ran = TRUE]
    /\ \E e \in LaunchErrors :
         /\ errlog' = IF e = "FileNotFoundError" THEN Append(errlog, e) ELSE errlog
         /\ err' = e
    /\ pc' = "finally"
    /\ UNCHANGED <<wd, logWrites, new_files>>

\* run(command, tempdir), lines 159-177, the command doing any of the things
\* a command can do: not start, or write files and streams and exit
run ==
    /\ pc = "run"
    /\ old_file_list' = FileList(wd)
    /\ \/ launch_failure
       \/ \E rc \in 0..MaxExit, so \in StreamChoices, se \in StreamChoices,
             written \in SUBSET CmdFileNames, mkdir \in BOOLEAN :
            LET p == [ran |-> TRUE, launched |-> TRUE, returncode |-> rc,
                      stdout |-> so, stderr |-> se, written |-> written, mkdir |-> mkdir]
                d == CmdEffect(wd, written, mkdir)
            IN  /\ proc' = p
                /\ IF rc = 0
                   THEN LET po == process_output(p, d, FALSE) IN
                        /\ wd' = po.wd
                        /\ logWrites' = po.writes
                        /\ errlog' = errlog
                        /\ IF po.err = "none"
                           THEN /\ new_files' \in Orderings(FileDelta(FileList(po.wd), FileList(wd)))
                                /\ err' = err
                                /\ pc' = IF Len(new_files') > 0 THEN "upload" ELSE "finally"
                           ELSE /\ new_files' = new_files
                                /\ err' = po.err
                                /\ pc' = "finally"
                   ELSE LET h == handle_called_process_error(p, d) IN
                        /\ wd' = h.wd
                        /\ logWrites' = h.writes
                        /\ errlog' = Append(errlog, "returncode") \o h.log
                        /\ new_files' = new_files
                        /\ err' = h.err
                        /\ pc' = "finally"
    /\ UNCHANGED <<params, tempdir, outside, item, fetches, fidx, pushes>>
    /\ UNCHANGED helperVars
    /\ UNCHANGED execVars

upload_item_keep_going ==
    /\ pc = "upload"
    /\ \E ok \in BOOLEAN :
         LET f == new_files[fidx]
             t == upload_s3(params.output, f)
         IN  /\ pushes' = Append(pushes, [bucket |-> t.bucket_name, key |-> t.object_name,
                                          file |-> f, data |-> wd[<<f>>].data, ok |-> ok])
             /\ fidx' = fidx + 1
             /\ pc' = IF fidx < Len(new_files) THEN "upload" ELSE "finally"
             /\ err' = err
    /\ UNCHANGED <<params, tempdir, wd, outside, item, fetches, proc, errlog,
                   logWrites, old_file_list, new_files>>
    /\ UNCHANGED helperVars
    /\ UNCHANGED execVars

\* one iteration of the upload loop of main(), lines 198-200
upload_item ==
    /\ pc = "upload"
    /\ \E ok \in BOOLEAN :
         LET f == new_files[fidx]
             t == upload_s3(params.output, f)
         IN  /\ pushes' = Append(pushes, [bucket |-> t.bucket_name, key |-> t.object_name,
                                          file |-> f, data |-> wd[<<f>>].data, ok |-> ok])
             /\ IF ok
                THEN /\ fidx' = fidx + 1
                     /\ pc' = IF fidx < Len(new_files) THEN "upload" ELSE "finally"
                     /\ err' = err
                ELSE /\ fidx' = fidx
                     /\ pc' = "finally"
                     /\ err' = "ClientError"
    /\ UNCHANGED <<params, tempdir, wd, outside, item, fetches, proc, errlog,
                   logWrites, old_file_list, new_files>>
    /\ UNCHANGED helperVars
    /\ UNCHANGED execVars

cleanup_wraps_error ==
    /\ pc = "finally"
    /\ pc' = "done"
    /\ tempdir' = "removed"
    /\ wd' = EmptyDir
    /\ err' = IF err = "none" THEN err ELSE "RuntimeError"
    /\ UNCHANGED <<params, outside, item, fetches, proc, errlog, logWrites,
                   old_file_list, new_files, fidx, pushes>>
    /\ UNCHANGED helperVars
    /\ UNCHANGED execVars

cleanup_unless_raised ==
    /\ pc = "finally"
    /\ pc' = "done"
    /\ IF err = "none"
       THEN tempdir' = "removed" /\ wd' = EmptyDir
       ELSE UNCHANGED <<tempdir, wd>>
    /\ UNCHANGED <<params, outside, item, fetches, proc, errlog, logWrites,
                   old_file_list, new_files, fidx, pushes, err>>
    /\ UNCHANGED helperVars
    /\ UNCHANGED execVars

\* the finally clause of main(), lines 201-204; err, if any, goes on to the caller
cleanup ==
    /\ pc = "finally"
    /\ pc' = "done"
    /\ tempdir' = "removed"
    /\ wd' = EmptyDir
    /\ UNCHANGED <<params, outside, item, fetches, proc, errlog, logWrites,
                   old_file_list, new_files, fidx, pushes, err>>
    /\ UNCHANGED helperVars
    /\ UNCHANGED execVars

Next == main_start \/ stage_item \/ run \/ upload_item \/ cleanup

Spec == Init /\ [][Next]_vars

(***************************************************************************)
(* The URL helpers on their own: parse_s3_url, download_s3 and upload_s3    *)
(* applied to every URL and file name of a bounded set                      *)
(***************************************************************************)
Strings(alphabet, n) == UNION { [1..k -> alphabet] : k \in 0..n }

UrlInputs ==
    { pre \o t : pre \in { <<"s","3",":","/","/">>, <<"s","3",":">> },
                 t \in Strings({"a", "/", ".", "#"}, MaxTail) }

\* names a directory entry can have
FileNameInputs == Strings({"o", ".", "#"}, MaxName) \ { <<>>, <<".">>, <<".",".">> }

InitUrl ==
    /\ pc = "helper"
    /\ params = [keys |-> {}, inputs |-> <<>>, output |-> <<>>]
    /\ Idle
    /\ h_op = "idle"
    /\ h_url \in UrlInputs
    /\ h_file \in FileNameInputs
    /\ h_res = NoResult
    /\ ExecIdle

\* parse_s3_url(h_url)
h_parse ==
    /\ h_op = "idle"
    /\ h_op' = "parse"
    /\ h_res' = parse_s3_url(h_url)
    /\ UNCHANGED <<h_url, h_file, fetches, pushes>>
    /\ UNCHANGED pipeVars
    /\ UNCHANGED execVars

\* download_s3(h_url, output_dir / h_file)
h_download_s3 ==
    /\ h_op = "idle"
    /\ h_op' = "download"
    /\ \E ok \in BOOLEAN :
         LET r == download_s3(h_url, Locate(h_file), wd, outside, ok) IN
         /\ wd' = r.wd
         /\ outside' = r.outside
         /\ fetches' = fetches \o r.attempt
         /\ err' = r.err
    /\ UNCHANGED <<h_url, h_file, h_res, pushes>>
    /\ UNCHANGED <<pc, params, tempdir, item, proc, errlog, logWrites,
                   old_file_list, new_files, fidx>>
    /\ UNCHANGED execVars

\* upload_s3(h_url, output_dir / h_file)
h_upload_s3 ==
    /\ h_op = "idle"
    /\ h_op' = "upload"
    /\ h_res' = upload_s3(h_url, h_file)
    /\ \E ok \in BOOLEAN :
         /\ pushes' = Append(pushes, [bucket |-> h_res'.bucket_name, key |-> h_res'.object_name,
                                      file |-> h_file, data |-> "cmd", ok |-> ok])
         /\ err' = IF ok THEN "none" ELSE "ClientError"
    /\ UNCHANGED <<h_url, h_file, fetches>>
    /\ UNCHANGED <<pc, params, tempdir, wd, outside, item, proc, errlog, logWrites,
                   old_file_list, new_files, fidx>>
    /\ UNCHANGED execVars

NextUrl == h_parse \/ h_download_s3 \/ h_upload_s3

SpecUrl == InitUrl /\ [][NextUrl]_vars

(***************************************************************************)
(* pism-cloud-execute: main() and execute() of pism_cloud/execute.py.      *)
(* The repository holds two versions: one takes --work-dir, the other      *)
(* takes --run-dir and makes the run's directories before it executes.     *)
(***************************************************************************)
Layouts == {"work-dir", "run-dir"}

\* args.bucket: absent (None), given empty, or given with a name
BucketChoices == {"None", "", "bkt"}

\* the files work_dir.glob('**/run_scripts/*.sh') can yield
Scripts == 1..MaxScripts

\* `if args.bucket:'
BucketGiven == x_args.bucket \notin {"None", ""}

\* the directories ensure_directories_exist(run_dir) makes
RunDirs == {"input", "logs", "output/post_processing", "output/spatial",
            "output/state", "run_scripts"}

\* s3_to_local and local_to_s3 are imported from pism_cloud.aws; a call of
\* either may return or raise
S3Errors == {"Exception"}

InitExec ==
    /\ pc = "execute"
    /\ params = [keys |-> {}, inputs |-> <<>>, output |-> <<>>]
    /\ Idle
    /\ h_op = "none" /\ h_url = <<>> /\ h_file = <<>> /\ h_res = NoResult
    /\ x_pc = "start"
    /\ x_args \in [layout : Layouts, bucket : BucketChoices, scripts : SUBSET Scripts]
    /\ x_todo = {} /\ x_started = <<>> /\ x_exits = <<>> /\ x_running = {}
    /\ x_calls = <<>> /\ x_dirs = {} /\ x_err = "none"

\* main() up to the call of execute(): the download when a bucket is given,
\* the run's directories in the --run-dir version, then the glob
exec_main_start ==
    /\ x_pc = "start"
    /\ \E ok \in BOOLEAN :
         /\ ~BucketGiven => ok
         /\ x_calls' = IF BucketGiven THEN Append(x_calls, "s3_to_local") ELSE x_calls
         /\ IF ok
            THEN /\ x_dirs' = IF x_args.layout = "run-dir" THEN RunDirs ELSE x_dirs
                 /\ x_todo' = x_args.scripts
                 /\ x_pc' = "loop"
                 /\ x_err' = x_err
            ELSE /\ \E e \in S3Errors : x_err' = e
                 /\ x_pc' = "done"
                 /\ UNCHANGED <<x_dirs, x_todo>>
    /\ UNCHANGED <<x_args, x_started, x_exits, x_running>>
    /\ UNCHANGED <<pipeVars, fetches, pushes>>
    /\ UNCHANGED helperVars

\* the loop of execute() takes the next script and subprocess.run starts it
exec_script_start ==
    /\ x_pc = "loop"
    /\ \E run_script \in x_todo :
         /\ x_todo' = x_todo \ {run_script}
         /\ x_started' = Append(x_started, run_script)
         /\ x_running' = x_running \cup {run_script}
    /\ x_pc' = "wait"
    /\ UNCHANGED <<x_args, x_exits, x_calls, x_dirs, x_err>>
    /\ UNCHANGED <<pipeVars, fetches, pushes>>
    /\ UNCHANGED helperVars

\* subprocess.run(..., check=False): the exit status is not looked at
exec_script_exit_unchecked ==
    /\ x_pc = "wait"
    /\ \E returncode \in 0..MaxExit :
         /\ x_exits' = Append(x_exits, returncode)
         /\ x_running' = {}
         /\ x_pc' = "loop"
         /\ x_err' = x_err
    /\ UNCHANGED <<x_args, x_todo, x_started, x_calls, x_dirs>>
    /\ UNCHANGED <<pipeVars, fetches, pushes>>
    /\ UNCHANGED helperVars

\* subprocess.run(..., check=True) returns when the script has exited, and
\* raises CalledProcessError when it exited non-zero
exec_script_exit ==
    /\ x_pc = "wait"
    /\ \E returncode \in 0..MaxExit :
         /\ x_exits' = Append(x_exits, returncode)
         /\ x_running' = {}
         /\ IF returncode = 0
            THEN /\ x_pc' = "loop"
                 /\ x_err' = x_err
            ELSE /\ x_pc' = "done"
                 /\ x_err' = "CalledProcessError"
    /\ UNCHANGED <<x_args, x_todo, x_started, x_calls, x_dirs>>
    /\ UNCHANGED <<pipeVars, fetches, pushes>>
    /\ UNCHANGED helperVars

\* execute() has returned: the upload when a bucket is given
exec_main_finish ==
    /\ x_pc = "loop"
    /\ x_todo = {}
    /\ \E ok \in BOOLEAN :
         /\ ~BucketGiven => ok
         /\ x_calls' = IF BucketGiven THEN Append(x_calls, "local_to_s3") ELSE x_calls
         /\ IF ok THEN x_err' = x_err ELSE \E e \in S3Errors : x_err' = e
    /\ x_pc' = "done"
    /\ UNCHANGED <<x_args, x_todo, x_started, x_exits, x_running, x_dirs>>
    /\ UNCHANGED <<pipeVars, fetches, pushes>>
    /\ UNCHANGED helperVars

NextExec == exec_main_start \/ exec_script_start \/ exec_script_exit \/ exec_main_finish

SpecExec == InitExec /\ [][NextExec]_vars

(***************************************************************************)
(* Properties                                                               *)
(***************************************************************************)
IsFileAt(d, n) == <<n>> \in DOMAIN d /\ d[<<n>>].kind = "file"

\* the direct children of tempdir that stage() was asked to create
StagedNames ==
    { Locate(file_name_of(params.inputs[i])).rel[1] :
        i \in { j \in 1..Len(params.inputs) :
                  LET loc == Locate(file_name_of(params.inputs[j])) IN
                  loc.inside /\ Len(loc.rel) = 1 } }

Pushed(n, data) ==
    \E i \in 1..Len(pushes) : pushes[i].file = n /\ pushes[i].data = data /\ pushes[i].ok

\* C1: when main() hands control back to its caller, with or without an
\* exception, a working directory it created no longer exists.
C1_DirectoryRemovedOnReturn ==
    pc = "done" => tempdir # "exists"

\* a run whose upload failed has returned, its directory removed
C1_Witness ==
    pc = "done" /\ tempdir = "removed" /\ err = "ClientError" /\ Len(pushes) = 2

\* C2: a command that starts and exits non-zero makes run() log the captured
\* streams at error severity and raise the command-failed error.
C2_CommandFailedRaised ==
    (proc.ran /\ proc.launched /\ proc.returncode # 0) =>
        /\ err = "CalledProcessError"
        /\ Len(proc.stdout) > 0 => "stdout" \in Range(errlog)
        /\ Len(proc.stderr) > 0 => "stderr" \in Range(errlog)

\* C3: once run() is over, it has written stdout.log (stderr.log) exactly if
\* the command exited with status 0 and the stream is not empty; what it wrote
\* is the stream, and a log file it did not write is as it was before the
\* command: absent, or the staged input of that name.
C3_LogFileIffSuccessAndOutput ==
    (proc.ran /\ tempdir = "exists") =>
        \A s \in { [file |-> stdout_log, tag |-> "stdout", bytes |-> proc.stdout],
                   [file |-> stderr_log, tag |-> "stderr", bytes |-> proc.stderr] } :
            /\ s.file \in logWrites <=>
                   (proc.launched /\ proc.returncode = 0 /\ Len(s.bytes) > 0)
            /\ s.file \in logWrites => wd[<<s.file>>] = File(s.tag)
            /\ s.file \notin logWrites =>
                   /\ <<s.file>> \in DOMAIN wd <=> s.file \in StagedNames
                   /\ <<s.file>> \in DOMAIN wd => wd[<<s.file>>] = File("input")

\* the command printed to stdout only and exited 0: stdout.log alone is written
C3_Witness ==
    /\ proc.ran /\ tempdir = "exists" /\ proc.returncode = 0
    /\ Len(proc.stdout) > 0 /\ Len(proc.stderr) = 0
    /\ logWrites = {stdout_log}
    /\ ~ IsFileAt(wd, stderr_log)

\* C4: after a zero exit the list run() returned holds, each once, exactly the
\* regular files directly in the working directory that were not staged there
\* before the command; a staged file the command wrote again, a directory and
\* a file inside a directory are not in it.
C4_DeltaIsNewDirectFiles ==
    (proc.ran /\ proc.returncode = 0 /\ proc.launched /\ tempdir = "exists") =>
        /\ Range(new_files) = { n \in { p[1] : p \in DOMAIN wd } : IsFileAt(wd, n) } \ StagedNames
        /\ Cardinality(Range(new_files)) = Len(new_files)
        /\ \A i \in 1..Len(new_files) : new_files[i] \notin StagedNames \cup {sub}

\* the command wrote the staged a.nc again, a new out.nc and a directory
\* holding a file: only out.nc is returned
C4_Witness ==
    /\ proc.ran /\ proc.returncode = 0 /\ tempdir = "exists"
    /\ a_nc \in StagedNames /\ IsFileAt(wd, a_nc) /\ wd[<<a_nc>>].data = "cmd"
    /\ <<sub, out_nc>> \in DOMAIN wd
    /\ new_files = <<out_nc>>

\* C5: when main() returns without an exception, every file the command
\* created in the working directory and the log of each non-empty stream has
\* been uploaded.
C5_OutputsAndLogsUploaded ==
    (pc = "done" /\ err = "none" /\ proc.ran) =>
        /\ \A n \in proc.written \ StagedNames : Pushed(n, "cmd")
        /\ Len(proc.stdout) > 0 => Pushed(stdout_log, "stdout")
        /\ Len(proc.stderr) > 0 => Pushed(stderr_log, "stderr")

\* C6: when every transfer of stage() has succeeded, the working directory
\* holds one file per input, under the override name or the last component of
\* the URL's path, and no file was created outside it.
C6_OneFilePerInputInside ==
    (pc = "run" /\ ~ proc.ran) =>
        /\ outside = {}
        /\ Cardinality(FileList(wd)) = Len(params.inputs)
        /\ \A i \in 1..Len(params.inputs) : IsFileAt(wd, file_name_of(params.inputs[i]))

\* a key or prefix that is its own normal form: no empty or "." component,
\* no separator at either end, no fragment or query mark
IsPlainKey(k) ==
    /\ Len(k) > 0
    /\ k[1] # "/" /\ k[Len(k)] # "/"
    /\ \A i \in 1..Len(k) : k[i] \notin {"#", "?"}
    /\ \A i \in 1..(Len(k) - 1) : ~ (k[i] = "/" /\ k[i+1] = "/")
    /\ \A i \in 1..Len(k) :
          k[i] = "." => \/ (i > 1 /\ k[i-1] # "/")
                        \/ (i < Len(k) /\ k[i+1] # "/")

\* a bucket name: it starts with a letter or a digit and ends the authority
IsPlainBucket(b) ==
    /\ Len(b) > 0
    /\ b[1] \in Range(LowerCase) \cup Range(Digits)
    /\ \A i \in 1..Len(b) : b[i] \notin {"/", "#", "?"}

S3Prefix == <<"s","3",":","/","/">>

\* the components of a path that are neither empty nor "."
Components(path) == SelectSeq(SplitOn(path, "/"), LAMBDA x : x # <<>> /\ x # <<".">>)

\* C7 as stated: the key is the URL's path less one leading separator,
\* nothing else changed.
C7_KeyIsPathLessOneSeparator ==
    (h_op = "parse" /\ IsPlainBucket(urlparse(h_url).netloc) /\ urlparse(h_url).path # <<>>) =>
        LET u == urlparse(h_url) IN
        /\ h_res.bucket_name = u.netloc
        /\ h_res.object_name = IF u.path[1] = "/" THEN From(u.path, 2) ELSE u.path

\* C7: parse_s3_url returns the URL's authority as the container and, as the
\* key, the components of the URL's path that are neither empty nor "."
\* joined by single separators ("." when there is none), behind "//" when the
\* path starts with exactly two separators; so s3://b/k for a key k in normal
\* form gives the container b and the key k.
C7_KeyIsNormalisedPath ==
    h_op = "parse" =>
        LET u == urlparse(h_url)
            joined == JoinWith(Components(u.path), "/")
            twoSlashes == /\ StartsWith(u.path, <<"/","/">>)
                          /\ ~ StartsWith(u.path, <<"/","/","/">>)
        IN  /\ h_res.bucket_name = u.netloc
            /\ h_res.object_name = IF twoSlashes THEN <<"/","/">> \o joined
                                   ELSE IF joined = <<>> THEN <<".">>
                                   ELSE joined
            /\ \A i \in 6..Len(h_url) :
                  LET b == SubSeq(h_url, 6, i - 1)
                      k == From(h_url, i + 1)
                  IN  ( StartsWith(h_url, S3Prefix) /\ h_url[i] = "/"
                        /\ IsPlainBucket(b) /\ IsPlainKey(k) )
                      => h_res = [bucket_name |-> b, object_name |-> k]

\* s3://a/a/ has been parsed: its key is a, not a/
C7_Witness ==
    /\ h_op = "parse"
    /\ h_url = S3Prefix \o <<"a","/","a","/">>
    /\ h_res = [bucket_name |-> <<"a">>, object_name |-> <<"a">>]

HasNoPath(url) ==
    /\ StartsWith(url, S3Prefix)
    /\ \A i \in 6..Len(url) : url[i] \notin {"/", "#", "?"}

HasNoAuthority(url) ==
    /\ StartsWith(url, <<"s","3",":">>)
    /\ \/ ~ StartsWith(url, S3Prefix)
       \/ Len(url) = 5
       \/ url[6] \in {"/", "#", "?"}

\* C8 as stated: a URL without a path or without an authority makes the
\* resolution fail with MalformedURL, no pair returned, no transfer attempted.
C8_MalformedUrlRejected ==
    (h_op \in {"parse", "download"} /\ (HasNoPath(h_url) \/ HasNoAuthority(h_url))) =>
        /\ err = "MalformedURL"
        /\ h_res = NoResult
        /\ fetches = <<>>

\* C8: parse_s3_url never fails.  For s3://bucket without a path it returns
\* the container bucket and the key ".", for a URL without an authority the
\* empty container; download_s3 hands the pair to the S3 client, so a
\* transfer is attempted and the only failure is the client's.
C8_NoPathGivesDotKey ==
    /\ (h_op = "parse" /\ HasNoPath(h_url)) =>
          h_res = [bucket_name |-> From(h_url, 6), object_name |-> <<".">>] /\ err = "none"
    /\ (h_op = "parse" /\ HasNoAuthority(h_url)) =>
          h_res.bucket_name = <<>> /\ h_res.object_name # <<>> /\ err = "none"
    /\ (h_op = "download" /\ HasNoPath(h_url)) =>
          /\ Len(fetches) = 1
          /\ fetches[1].bucket = From(h_url, 6) /\ fetches[1].key = <<".">>
          /\ err = IF fetches[1].ok THEN "none" ELSE "ClientError"
    /\ (h_op = "download" /\ HasNoAuthority(h_url)) =>
          /\ Len(fetches) = 1
          /\ fetches[1].bucket = <<>> /\ fetches[1].key # <<>>
          /\ err = IF fetches[1].ok THEN "none" ELSE "ClientError"

\* s3://a has been downloaded: the client was asked for the key "." of bucket a
C8_Witness ==
    /\ h_op = "download"
    /\ h_url = S3Prefix \o <<"a">>
    /\ Len(fetches) = 1
    /\ fetches[1].bucket = <<"a">> /\ fetches[1].key = <<".">>

\* C9: for the destination s3://bucket/prefix, with or without a trailing
\* separator, upload_s3 puts a file at the key prefix/name of the bucket.
C9_UploadKeyIsPrefixSlashName ==
    h_op = "upload" =>
        \A i \in 6..Len(h_url) :
            LET b == SubSeq(h_url, 6, i - 1)
                p == From(h_url, i + 1)
                prefix == IF Len(p) > 0 /\ p[Len(p)] = "/" THEN Upto(p, Len(p) - 1) ELSE p
            IN  ( StartsWith(h_url, S3Prefix) /\ h_url[i] = "/"
                  /\ IsPlainBucket(b) /\ IsPlainKey(prefix) )
                => /\ pushes[1].bucket = b
                   /\ pushes[1].key = prefix \o <<"/">> \o h_file

\* C10: a transfer goes through the S3 client exactly if the URL's scheme is
\* s3 and through cURL otherwise, at most one transfer per input; the inputs
\* ["https://x/a.nc", ["s3://bkt/k", "b.nc"]] are staged as a.nc by cURL and
\* as b.nc by the S3 client from the key k of bkt.
C10_DispatchOnScheme ==
    /\ \A i \in 1..Len(fetches) :
          /\ fetches[i].via \in {"s3", "curl"}
          /\ fetches[i].via = "s3" <=> StartsWith(fetches[i].url, <<"s","3",":">>)
          /\ i <= Len(params.inputs) /\ fetches[i].url = params.inputs[i].url
    /\ pc = "stage" => Len(fetches) = item - 1
    /\ ( pc = "run" /\ ~ proc.ran
         /\ params.inputs = << UrlItem(Https_x \o <<"/">> \o a_nc),
                               PairItem(S3_bkt \o <<"/","k">>, b_nc) >> ) =>
          /\ Len(fetches) = 2
          /\ fetches[1].via = "curl" /\ fetches[1].target = a_nc
          /\ fetches[2].via = "s3" /\ fetches[2].target = b_nc
          /\ fetches[2].bucket = <<"b","k","t">> /\ fetches[2].key = <<"k">>
          /\ FileList(wd) = {a_nc, b_nc}

\* the two inputs of the example have been staged
C10_Witness ==
    /\ pc = "run"
    /\ params.inputs = << UrlItem(Https_x \o <<"/">> \o a_nc),
                          PairItem(S3_bkt \o <<"/","k">>, b_nc) >>
    /\ Len(fetches) = 2 /\ fetches[1].via = "curl" /\ fetches[2].via = "s3"
    /\ FileList(wd) = {a_nc, b_nc}

\* C11: a command that cannot be started makes run() fail with the error of
\* the launch, which is not the error of a non-zero exit; run() then writes
\* no log file and returns no list, and nothing is uploaded.
C11_LaunchFailureIsItsOwnError ==
    /\ (proc.ran /\ ~ proc.launched) =>
          /\ err \in LaunchErrors
          /\ logWrites = {} /\ new_files = <<>> /\ pushes = <<>>
          /\ tempdir = "exists" =>
                \A f \in {stdout_log, stderr_log} :
                    /\ <<f>> \in DOMAIN wd <=> f \in StagedNames
                    /\ <<f>> \in DOMAIN wd => wd[<<f>>] = File("input")
    /\ (proc.ran /\ proc.launched /\ proc.returncode # 0) => err \notin LaunchErrors

\* the executable was missing: FileNotFoundError went to the caller, after an
\* input had been staged
C11_Witness ==
    /\ pc = "done" /\ proc.ran /\ ~ proc.launched
    /\ err = "FileNotFoundError" /\ errlog = <<"FileNotFoundError">>
    /\ Len(fetches) = 1 /\ pushes = <<>>

\* main() left stage() by an exception: it is in or past its finally clause
\* and run() was never called
StagingFailed == tempdir # "none" /\ ~ proc.ran /\ pc \in {"finally", "done"}

\* the file stage() made for an input
IsStaged(it) ==
    LET loc == Locate(file_name_of(it)) IN
    IF loc.inside THEN loc.rel \in DOMAIN wd /\ wd[loc.rel].kind = "file"
    ELSE loc.name \in outside

\* C12: the inputs are fetched in list order, each only after the one before
\* it succeeded; once a fetch has failed its error is the one that leaves
\* stage(), no later input is fetched, the files of the earlier inputs are
\* still there until the finally clause removes them, and the command is not
\* started.
C12_StagingFailsFast ==
    /\ \A i \in 1..Len(fetches) :
          /\ i <= Len(params.inputs) /\ fetches[i].url = params.inputs[i].url
          /\ i < Len(fetches) => fetches[i].ok
    /\ StagingFailed =>
          /\ proc = NoProc /\ pushes = <<>>
          /\ Len(fetches) <= item
          /\ (Len(fetches) = item /\ ~ fetches[item].ok) =>
                err = IF fetches[item].via = "s3" THEN "ClientError" ELSE "pycurl.error"
          /\ pc = "finally" => \A j \in 1..(item - 1) : IsStaged(params.inputs[j])

\* the second of two inputs could not be fetched: the first one's file is in
\* the directory, the command has not run
C12_Witness ==
    /\ StagingFailed /\ pc = "finally"
    /\ Len(params.inputs) = 2 /\ item = 2
    /\ Len(fetches) = 2 /\ fetches[1].ok /\ ~ fetches[2].ok
    /\ IsFileAt(wd, a_nc) /\ wd[<<a_nc>>].data = "input"
    /\ err = "ClientError"

\* C13: the files are pushed in the order of the list run() returned, each
\* once and only after the one before it was pushed; a failed push is the
\* last one, its ClientError reaches the caller once the directory is gone,
\* and what was pushed before stays pushed: the record of pushes only grows.
C13_UploadsInOrderUntilFailure ==
    /\ [] ( /\ Len(pushes) <= Len(new_files)
            /\ \A i \in 1..Len(pushes) :
                  /\ pushes[i].file = new_files[i]
                  /\ i < Len(pushes) => pushes[i].ok
                  /\ \A j \in 1..Len(pushes) : i # j => pushes[i].file # pushes[j].file
            /\ (Len(pushes) > 0 /\ ~ pushes[Len(pushes)].ok) =>
                  /\ pc \in {"finally", "done"}
                  /\ err = "ClientError"
                  /\ pc = "done" => tempdir = "removed" )
    /\ [][ Len(pushes') >= Len(pushes) /\ SubSeq(pushes', 1, Len(pushes)) = pushes ]_vars

\* the second of three files was refused: the first stays pushed, the third
\* is never tried, the caller gets the ClientError
C13_Witness ==
    /\ pc = "done" /\ err = "ClientError" /\ tempdir = "removed"
    /\ Len(new_files) = 3 /\ Len(pushes) = 2
    /\ pushes[1].ok /\ ~ pushes[2].ok

\* the exceptions stage(), run() and upload_s3() let out
StepErrors ==
    {"ClientError", "pycurl.error", "IsADirectoryError", "FileNotFoundError",
     "PermissionError", "TypeError"}

\* C14: nothing is tried twice and no error is handled: an input is fetched
\* at most once, the command is run at most once, a file is pushed at most
\* once; once a step has raised, no transfer and no command follows, and the
\* exception the step raised is, unchanged, the one main() raises, after the
\* directory has been removed.
C14_ErrorsEndTheRunUnchanged ==
    /\ [] ( /\ Len(fetches) <= Len(params.inputs)
            /\ \A i \in 1..Len(fetches) : fetches[i].url = params.inputs[i].url
            /\ \A i, j \in 1..Len(pushes) : i # j => pushes[i].file # pushes[j].file
            /\ (err # "none" /\ tempdir # "none") =>
                  /\ err \in StepErrors
                  /\ pc \in {"finally", "done"}
                  /\ pc = "done" => tempdir = "removed" )
    /\ [][ /\ proc.ran => proc' = proc
           /\ err # "none" =>
                 (err' = err /\ fetches' = fetches /\ pushes' = pushes /\ proc' = proc)
         ]_vars

\* the command exited non-zero after an input was staged: one fetch, one
\* launch, no push, and the caller gets what run() raised
C14_Witness ==
    /\ pc = "done" /\ tempdir = "removed"
    /\ proc.ran /\ proc.launched /\ proc.returncode # 0
    /\ Len(fetches) = 1 /\ pushes = <<>>
    /\ err = "TypeError"

\* an element of `inputs` that is a URL string without a path
IsBareWithoutPath(it) == it.kind = "str" /\ urlparse(it.url).path = <<>>

\* C15 as stated: a bare URL without a path makes stage() fail with
\* MalformedURL before any transfer is attempted for it.
C15_EmptyPathIsMalformedUrl ==
    (StagingFailed /\ IsBareWithoutPath(params.inputs[item])) =>
        /\ err = "MalformedURL"
        /\ Len(fetches) = item - 1

\* C15: a bare URL without a path gets the empty file name, so that the
\* download is aimed at the working directory itself, and no MalformedURL is
\* raised.  Staging fails at that input: for a URL that is not s3 with the
\* IsADirectoryError of open(), before any transfer; for an s3 URL after the
\* S3 client was asked for the key ".", with the client's error or the error
\* of putting the object where the directory is.  No file appears in the
\* working directory for the input and the command is never started.
C15_EmptyPathAimsAtDirectory ==
    /\ (\E i \in 1..Len(params.inputs) : IsBareWithoutPath(params.inputs[i])) => ~ proc.ran
    /\ (StagingFailed /\ IsBareWithoutPath(params.inputs[item])) =>
          LET url == params.inputs[item].url IN
          /\ IF StartsWith(url, <<"s","3",":">>)
             THEN /\ Len(fetches) = item
                  /\ fetches[item].via = "s3" /\ fetches[item].key = <<".">>
                  /\ err = IF fetches[item].ok THEN "IsADirectoryError" ELSE "ClientError"
             ELSE /\ Len(fetches) = item - 1
                  /\ err = "IsADirectoryError"
          /\ pc = "finally" =>
                /\ \A p \in DOMAIN wd :
                      \E j \in 1..(item - 1) :
                          Locate(file_name_of(params.inputs[j])).rel = p
                /\ \A n \in outside :
                      \E j \in 1..(item - 1) :
                          Locate(file_name_of(params.inputs[j])).name = n

\* "https://x" came second: a.nc is staged, open() of the directory failed,
\* no second transfer was attempted
C15_Witness ==
    /\ StagingFailed /\ pc = "finally"
    /\ params.inputs = << UrlItem(Https_x \o <<"/">> \o a_nc), UrlItem(Https_x) >>
    /\ item = 2 /\ Len(fetches) = 1
    /\ err = "IsADirectoryError"
    /\ DOMAIN wd = { <<a_nc>> }

\* C16: the command has run only if every input was fetched, and
\* successfully; a file has been pushed only if the command exited with
\* status 0; so a run whose staging, launch or command failed has pushed
\* nothing, the captured output included.
C16_StageThenRunThenUpload ==
    /\ proc.ran =>
          /\ Len(fetches) = Len(params.inputs)
          /\ \A i \in 1..Len(fetches) : fetches[i].ok
    /\ Len(pushes) > 0 => (proc.ran /\ proc.launched /\ proc.returncode = 0)
    /\ (pc = "done" /\ tempdir # "none"
        /\ (~ proc.ran \/ ~ proc.launched \/ proc.returncode # 0)) =>
          /\ err # "none"
          /\ pushes = <<>>

\* two inputs were staged, the command printed to stdout and exited 1:
\* nothing was pushed
C16_Witness ==
    /\ pc = "done" /\ Len(fetches) = 2
    /\ proc.ran /\ proc.launched /\ proc.returncode = 1 /\ Len(proc.stdout) > 0
    /\ pushes = <<>>

\* C17: with one of inputs, command and output missing, main() fails with
\* KeyError before it creates a directory: none exists or is left behind, no
\* transfer is attempted and no command is run.
C17_MissingParameterFailsEarly ==
    ~ (ParamKeys \subseteq params.keys) =>
        /\ tempdir = "none" /\ wd = EmptyDir /\ outside = {}
        /\ fetches = <<>> /\ pushes = <<>> /\ ~ proc.ran
        /\ pc \in {"init", "done"}
        /\ pc = "done" => err = "KeyError"

\* the parameters lacked "output": main() has failed with KeyError
C17_Witness ==
    /\ pc = "done" /\ err = "KeyError"
    /\ params.keys = {"inputs", "command"}
    /\ Len(params.inputs) > 0
    /\ tempdir = "none" /\ fetches = <<>>

SeqRange(q) == {q[i] : i \in 1..Len(q)}

\* C18: pism-cloud-execute runs the scripts under run_scripts/ one after
\* another, never two at once; the first script that exits non-zero aborts the
\* run, so no later script is started and local_to_s3 is not called;
\* s3_to_local and local_to_s3 are called only when a bucket was given, the
\* download before any script, the upload only after every script exited zero.
C18_ScriptsInTurnAndSyncOnlyWithBucket ==
    x_pc # "none" =>
      /\ Cardinality(x_running) <= 1
      /\ Len(x_exits) <= Len(x_started) /\ Len(x_started) <= Len(x_exits) + 1
      /\ x_running = IF Len(x_started) > Len(x_exits)
                     THEN {x_started[Len(x_started)]} ELSE {}
      /\ \A i \in 1..Len(x_exits) :
           /\ i < Len(x_started) => x_exits[i] = 0
           /\ x_exits[i] # 0 =>
                /\ x_pc = "done" /\ x_err = "CalledProcessError"
                /\ "local_to_s3" \notin SeqRange(x_calls)
      /\ x_calls # <<>> => BucketGiven
      /\ (BucketGiven /\ x_started # <<>>) => (x_calls # <<>> /\ x_calls[1] = "s3_to_local")
      /\ \A k \in 1..Len(x_calls) : x_calls[k] = "s3_to_local" => k = 1
      /\ "local_to_s3" \in SeqRange(x_calls) =>
           /\ x_calls = <<"s3_to_local", "local_to_s3">>
           /\ x_running = {}
           /\ SeqRange(x_started) = x_args.scripts
           /\ Len(x_exits) = Len(x_started)
           /\ \A i \in 1..Len(x_exits) : x_exits[i] = 0

\* the second of three scripts exited non-zero after the first exited zero,
\* with a bucket given
C18_Witness ==
    /\ x_pc = "done" /\ x_err = "CalledProcessError"
    /\ BucketGiven
    /\ Cardinality(x_args.scripts) = 3
    /\ Len(x_started) = 2 /\ Len(x_exits) = 2
    /\ x_exits[1] = 0 /\ x_exits[2] # 0
    /\ x_calls = <<"s3_to_local">>

====
